---- MODULE Spec2Model ----
(***************************************************************************)
(* A model of the EMS control process (src/ems): the collectors' shared    *)
(* run_forever scheduler with exponential backoff (collectors/base.py),    *)
(* the Sonnen, Tibber and Solcast collectors, the decision loop            *)
(* (loops/decision.py), the dispatcher (loops/actuation.py) and the        *)
(* confirmation monitor (loops/confirm.py).                                *)
(*                                                                         *)
(* Conventions.                                                            *)
(*  - A Python Optional is a sequence of length 0 (None) or 1 (a value).   *)
(*  - Wall-clock time is a day number and a slot of SlotSec seconds within *)
(*    the day; only the Solcast collector reads the clock.                 *)
(*  - Prices are whole currency units; a percentile is carried as four     *)
(*    times its value (q is a multiple of 0.25, so (n-1)*q, its integer    *)
(*    part and its fractional part are exact in binary floating point and  *)
(*    the scaled integer arithmetic below is the float arithmetic).        *)
(***************************************************************************)
EXTENDS Integers, Sequences, FiniteSets, TLC

VARIABLES
    \* BaseCollector (one instance per collector)
    consecutive_errors,   \* [collector -> Nat]      self._consecutive_errors
    pc,                   \* [collector -> position] where run_forever stands ("cancelled": it has ended)
    sleep_sec,            \* [collector -> Nat]      argument of the pending/last asyncio.sleep
    last_outcome,         \* [collector -> "none" | "returned" | "raised"] of the last _collect
    fail_streak,          \* [collector -> Nat] failed _collect calls since the last success (observer)
    \* TibberCollector
    last_forecast_hash,   \* Optional hash            self._last_forecast_hash
    tib_resp,             \* Optional [current, forecast, repeat]: what the response of the last _collect carried,
                          \* and whether the _collect before it had returned with that same forecast (observer)
    hash_src,             \* Optional forecast: the one whose fingerprint _last_forecast_hash holds (observer)
    tib_stored,           \* the forecasts whose points a store write that returned carried (observer)
    tib_written,          \* kinds of points the last _collect got written to the store (observer)
    \* SolcastCollector
    now_day,              \* UTC date of the wall clock (day number)
    now_slot,             \* slot of the day, 0 .. SlotsPerDay-1
    last_fetch_hour,      \* Optional hour            self._last_fetch_hour
    daily_calls,          \* Nat                      self._daily_calls
    daily_calls_date,     \* Optional day, <<>> = ""  self._daily_calls_date
    grants_today,         \* ticks of the current UTC day on which _should_fetch returned True (observer)
    grant_key,            \* Optional <<day, hour>> of the last tick on which _should_fetch returned True
    regranted,            \* TRUE once _should_fetch returned True twice in one hour-window (observer)
    sc_sites,             \* Optional [errs, points]: how many sites were set to raise and how many to return
                          \* points on the last _collect, None if _should_fetch refused it (observer)
    sc_write,             \* "none" | "ok" | "error": the store write of the last _collect (observer)
    sc_batch,             \* number of sites whose points the last _collect got written to the store (observer)
    \* DecisionLoop
    current_result,       \* self._current_result
    dec_pc,               \* where DecisionLoop.run_forever stands
    dec_sleep,            \* argument of the pending/last asyncio.sleep of the decision loop
    dec_outcome,          \* how the last _tick ended: "none" | "published" | "query_raised" | "tick_raised"
    pct_calls,            \* number of _percentile calls made by the last _tick
    store_price,          \* Optional price: what _fetch_current_price_ct finds in the store
    store_today,          \* ascending list: what _fetch_today_forecast_ct finds in the store
    \* _percentile called on its own
    pct_values, pct_q4, pct_result,
    \* ActuationLoop
    last_sent_command,    \* Optional mode            self._last_sent_command
    dry_run,              \* BOOLEAN                  self.dry_run
    act_pc,               \* where ActuationLoop.run_forever stands
    act_seen,             \* Optional mode: current_decision as the last _tick read it (observer)
    act_dispatch,         \* Optional mode: the dispatch the last _tick made, None if it returned early (observer)
    dispatched,           \* Optional mode of the most recent dispatch (observer)
    run_dispatches,       \* dispatches, counted up to 2, over the latest run of _ticks that read one mode (observer)
    hw_mode,              \* Optional mode: the last command handed to the hardware actuation sink
    \* ConfirmLoop
    conf_pc,              \* where ConfirmLoop.run_forever stands
    conf_expected         \* Optional: the _last_sent_command the last ConfirmLoop._tick reported (observer)

collectorVars == <<consecutive_errors, pc, sleep_sec, last_outcome, fail_streak>>
tibberVars    == <<last_forecast_hash, tib_resp, tib_written, hash_src, tib_stored>>
solcastVars   == <<now_day, now_slot, last_fetch_hour, daily_calls, daily_calls_date,
                   grants_today, grant_key, regranted, sc_sites, sc_write, sc_batch>>
decisionVars  == <<current_result, dec_pc, dec_sleep, dec_outcome, pct_calls,
                   store_price, store_today>>
percentileVars == <<pct_values, pct_q4, pct_result>>
actuationVars == <<last_sent_command, dry_run, act_pc, act_seen, act_dispatch, dispatched,
                   run_dispatches, hw_mode>>
confirmVars   == <<conf_pc, conf_expected>>
loopVars      == <<actuationVars, confirmVars>>
vars == <<collectorVars, tibberVars, solcastVars, decisionVars, percentileVars, loopVars>>

Min(a, b) == IF a <= b THEN a ELSE b

None == <<>>
Some(x) == <<x>>

-----------------------------------------------------------------------------
(* Bounds of the model *)

\* a collector fails at most this many times in a row
MaxFailures == 6
\* the Solcast store write fails at most this many times in a row
MaxWriteFailures == 2
\* the clock runs over the first MaxHours hours from 00:00 UTC of day 0
MaxHours == 36
\* the same for the specification with cancellation
CancelHours == 7
\* forecast payloads 0 .. MaxForecast (0: both curves empty)
MaxForecast == 3
\* the forecast fingerprint takes HashSpace values
HashSpace == 3
\* the today-forecast holds at most MaxLen values
MaxLen == 4

-----------------------------------------------------------------------------
(* Program constants *)

SonnenInterval == 30
TibberInterval == 300
SolcastInterval == 900
MaxBackoff == 300
SettleDelay == 2
DailyCap == 10
\* one clock slot is the shortest sleep of the Solcast collector (min(900 * 2^k, 300) = 300 s)
SlotSec == MaxBackoff
SlotsPerDay == (24 * 3600) \div SlotSec
SlotsPerHour == 3600 \div SlotSec

Collectors == {"sonnen", "tibber", "solcast"}

interval_sec(c) ==
    CASE c = "sonnen" -> SonnenInterval
      [] c = "tibber" -> TibberInterval
      [] c = "solcast" -> SolcastInterval

FETCH_HOURS_UTC == {5, 9, 13, 17, 21}

Sites == <<"se", "sw">>

-----------------------------------------------------------------------------
(* BaseCollector.run_forever *)

BackoffNoMinusOne(c, errors) == Min(interval_sec(c) * (2 ^ errors), MaxBackoff)

\* min(self.interval_sec * 2 ** (self._consecutive_errors - 1), self._max_backoff)
Backoff(c, errors) == Min(interval_sec(c) * (2 ^ (errors - 1)), MaxBackoff)

ErrorsSharedByAll(c) == [d \in Collectors |-> consecutive_errors[d] + 1]

\* self._consecutive_errors += 1: the counter is an instance attribute
ErrorsAfterFailure(c) == [consecutive_errors EXCEPT ![c] = @ + 1]

\* try: await self._collect(); self._consecutive_errors = 0 ... await asyncio.sleep(self.interval_sec)
OnReturned(c) ==
    /\ consecutive_errors' = [consecutive_errors EXCEPT ![c] = 0]
    /\ sleep_sec' = [sleep_sec EXCEPT ![c] = interval_sec(c)]
    /\ fail_streak' = [fail_streak EXCEPT ![c] = 0]
    /\ last_outcome' = [last_outcome EXCEPT ![c] = "returned"]
    /\ pc' = [pc EXCEPT ![c] = "sleep"]

\* except Exception: count, compute the backoff, sleep it, continue
OnRaised(c) ==
    /\ consecutive_errors' = ErrorsAfterFailure(c)
    /\ sleep_sec' = [sleep_sec EXCEPT ![c] = Backoff(c, consecutive_errors'[c])]
    /\ fail_streak' = [fail_streak EXCEPT ![c] = @ + 1]
    /\ last_outcome' = [last_outcome EXCEPT ![c] = "raised"]
    /\ pc' = [pc EXCEPT ![c] = "sleep"]

\* the model lets _collect raise only while the failures counted are under its bound
MayRaise(c) ==
    consecutive_errors[c] < (IF c = "solcast" THEN MaxWriteFailures ELSE MaxFailures)

-----------------------------------------------------------------------------
(* SonnenCollector._collect: one GET, one write, no state of its own *)

SonnenCollect(res) ==
    \E http \in {"ok", "error"}, write \in {"ok", "error"} :
        res = IF http = "ok" /\ write = "ok" THEN "returned" ELSE "raised"

-----------------------------------------------------------------------------
(* TibberCollector._collect *)

Forecasts == 0 .. MaxForecast

\* hash(tuple((p["total"], p["startsAt"]) ...)): a fingerprint, equal contents
\* give equal fingerprints, different contents may collide
ForecastHash(f) == f % HashSpace

ForecastAlwaysChanged(f) == TRUE

\* if forecast_hash != self._last_forecast_hash
ForecastChanged(f) == Some(ForecastHash(f)) # last_forecast_hash

TibberCollect(res) ==
    \E resp \in {"ok", "http_error", "graphql_errors", "no_homes"},
       has_current \in BOOLEAN, f \in Forecasts, write \in {"ok", "error"} :
        IF resp # "ok"
        THEN /\ res = "raised"
             /\ tib_resp' = None
             /\ tib_written' = {}
             /\ UNCHANGED <<last_forecast_hash, hash_src, tib_stored>>
        ELSE LET changed == ForecastChanged(f)
                 \* points: the current price (if any) and, when changed, the forecast points
                 points == (IF has_current THEN {"current"} ELSE {})
                           \cup (IF changed /\ f # 0 THEN {"forecast"} ELSE {})
                 npoints == Cardinality(points)
             IN /\ last_forecast_hash' =
                       IF changed THEN Some(ForecastHash(f)) ELSE last_forecast_hash
                /\ tib_resp' = Some([current |-> has_current, forecast |-> f,
                                     repeat |-> /\ last_outcome["tibber"] = "returned"
                                                /\ tib_resp # None
                                                /\ tib_resp[1].forecast = f])
                /\ hash_src' = IF changed THEN Some(f) ELSE hash_src
                /\ tib_written' = IF write = "ok" THEN points ELSE {}
                /\ tib_stored' = IF write = "ok" /\ "forecast" \in points
                                 THEN tib_stored \cup {f} ELSE tib_stored
                \* _write_points returns at once on an empty batch
                /\ res = IF npoints > 0 /\ write = "error" THEN "raised" ELSE "returned"

-----------------------------------------------------------------------------
(* SolcastCollector *)

\* datetime.now(timezone.utc).hour
Hour == now_slot \div SlotsPerHour

\* datetime.now(timezone.utc).strftime("%Y-%m-%d"): one key per UTC day
Today == Some(now_day)

ReachesResetAlways == TRUE

\* _should_fetch reaches _reset_daily_counter_if_needed only past its first two returns
ReachesReset == Hour \in FETCH_HOURS_UTC /\ last_fetch_hour # Some(Hour)

\* _reset_daily_counter_if_needed, as called from _should_fetch
DateAfterCheck == IF ReachesReset THEN Today ELSE daily_calls_date
CallsAfterCheck ==
    IF ReachesReset /\ Today # daily_calls_date THEN 0 ELSE daily_calls

ShouldFetchAnyHour ==
    /\ last_fetch_hour # Some(Hour)
    /\ CallsAfterCheck < DailyCap

ShouldFetch ==
    /\ Hour \in FETCH_HOURS_UTC
    /\ last_fetch_hour # Some(Hour)
    /\ CallsAfterCheck < DailyCap

SiteOutcomes == {"error", "empty", "points"}

\* how many of the sites answered o[i] = x
Count(o, x) == Cardinality({i \in 1 .. Len(Sites) : o[i] = x})

StopsAtFirstError(o, i) == \A j \in 1 .. (i - 1) : o[j] # "error"

\* except Exception: continue -- the loop goes on to every site
Reached(o, i) == TRUE

AnsweredNobody(o) == {}

\* the sites whose fetch returned (self._daily_calls += 1 for each), and those
\* that returned points
Answered(o) == {i \in 1 .. Len(Sites) : Reached(o, i) /\ o[i] # "error"}
WithPoints(o) == {i \in 1 .. Len(Sites) : Reached(o, i) /\ o[i] = "points"}

\* observers of the ticks on which permission was granted
Granted ==
    /\ grants_today' =
          Min((IF grant_key # None /\ grant_key[1][1] = now_day THEN grants_today ELSE 0) + 1,
              DailyCap + 1)
    /\ regranted' = (regranted \/ grant_key = Some(<<now_day, Hour>>))
    /\ grant_key' = Some(<<now_day, Hour>>)

SolcastCollect(res) ==
    \E o \in [1 .. Len(Sites) -> SiteOutcomes], write \in {"ok", "error"} :
        /\ daily_calls_date' = DateAfterCheck
        /\ IF ~ShouldFetch
           THEN /\ res = "returned"
                /\ daily_calls' = CallsAfterCheck
                /\ sc_sites' = None
                /\ sc_write' = "none"
                /\ sc_batch' = 0
                /\ UNCHANGED <<last_fetch_hour, grants_today, grant_key, regranted>>
           ELSE LET points == WithPoints(o) # {}
                IN /\ daily_calls' = CallsAfterCheck + Cardinality(Answered(o))
                   /\ Granted
                   /\ sc_sites' = Some([errs |-> Count(o, "error"),
                                        points |-> Count(o, "points")])
                   \* an empty batch is not written
                   /\ sc_write' = IF points THEN write ELSE "none"
                   /\ sc_batch' = IF points /\ write = "ok"
                                  THEN Cardinality(WithPoints(o)) ELSE 0
                   /\ IF points /\ write = "ok"
                      THEN /\ last_fetch_hour' = Some(Hour)
                           /\ res = "returned"
                      ELSE /\ UNCHANGED last_fetch_hour
                           \* a failed write raises out of _collect
                           /\ res = IF points THEN "raised" ELSE "returned"

-----------------------------------------------------------------------------
(* run_forever, one collector's steps *)

Collect(c, res) ==
    CASE c = "sonnen" -> SonnenCollect(res) /\ UNCHANGED <<tibberVars, solcastVars>>
      [] c = "tibber" -> TibberCollect(res) /\ UNCHANGED solcastVars
      [] c = "solcast" -> SolcastCollect(res) /\ UNCHANGED <<tibberVars, now_day, now_slot>>

\* one pass of the loop body up to its sleep
CollectorTick(c) ==
    /\ pc[c] = "collect"
    /\ \E res \in {"returned", "raised"} :
          /\ res = "raised" => MayRaise(c)
          /\ Collect(c, res)
          /\ IF res = "returned" THEN OnReturned(c) ELSE OnRaised(c)
    /\ UNCHANGED <<decisionVars, percentileVars, loopVars>>

\* the pending asyncio.sleep ends; the Solcast collector's clock moves on by it
CollectorWake(c) ==
    /\ pc[c] = "sleep"
    /\ pc' = [pc EXCEPT ![c] = "collect"]
    /\ IF c = "solcast"
       THEN LET t == now_slot + (sleep_sec[c] \div SlotSec)
            IN /\ (now_day * SlotsPerDay) + t < MaxHours * SlotsPerHour
               /\ now_day' = now_day + (t \div SlotsPerDay)
               /\ now_slot' = t % SlotsPerDay
       ELSE UNCHANGED <<now_day, now_slot>>
    /\ UNCHANGED <<consecutive_errors, sleep_sec, last_outcome, fail_streak, tibberVars,
                   last_fetch_hour, daily_calls, daily_calls_date,
                   grants_today, grant_key, regranted, sc_sites, sc_write, sc_batch,
                   decisionVars, percentileVars, loopVars>>

\* __init__, then run_forever up to its first sleep: await asyncio.sleep(2)
InitCollectors ==
    /\ consecutive_errors = [c \in Collectors |-> 0]
    /\ pc = [c \in Collectors |-> "sleep"]
    /\ sleep_sec = [c \in Collectors |-> SettleDelay]
    /\ last_outcome = [c \in Collectors |-> "none"]
    /\ fail_streak = [c \in Collectors |-> 0]
    /\ last_forecast_hash = None
    /\ tib_resp = None
    /\ tib_written = {}
    /\ hash_src = None
    /\ tib_stored = {}
    /\ last_fetch_hour = None
    /\ daily_calls = 0
    /\ daily_calls_date = None
    /\ grants_today = 0
    /\ grant_key = None
    /\ regranted = FALSE
    /\ sc_sites = None
    /\ sc_write = "none"
    /\ sc_batch = 0
    /\ now_day = 0

-----------------------------------------------------------------------------
(* DecisionLoop *)

DecisionInterval == 60
TargetPower == 3000
\* spread >= 8.0, in quarters of a unit
SpreadThreshold == 8
Q25 == 1
Q75 == 3

PriceValues == {10, 15, 18, 20, 25, 30, 40, 45}

\* sorted(prices_by_time.values()): ascending, repeated values kept
SortedLists ==
    {s \in UNION {[1 .. n -> PriceValues] : n \in 0 .. MaxLen} :
        \A i \in 1 .. (Len(s) - 1) : s[i] <= s[i + 1]}

OptionalPrices == {None} \cup {Some(p) : p \in PriceValues}

\* values[lo], no interpolation
PercentileLower(values, q4) ==
    IF Len(values) = 0 THEN [raised |-> TRUE, val4 |-> 0]
    ELSE [raised |-> FALSE, val4 |-> 4 * values[(((Len(values) - 1) * q4) \div 4) + 1]]

\* idx = len(values) * q
PercentileIdxLen(values, q4) ==
    IF Len(values) = 0 THEN [raised |-> TRUE, val4 |-> 0]
    ELSE IF Len(values) = 1 THEN [raised |-> FALSE, val4 |-> 4 * values[1]]
    ELSE LET idx4 == Len(values) * q4
             lo == idx4 \div 4
             hi == Min(lo + 1, Len(values) - 1)
             frac4 == idx4 - 4 * lo
         IN [raised |-> FALSE,
             val4 |-> 4 * values[lo + 1] + (values[hi + 1] - values[lo + 1]) * frac4]

\* DecisionLoop._percentile(values, q) with q = q4 / 4; val4 is four times the
\* value returned, raised is the ValueError of an empty list.  Python indexes
\* from 0, sequences from 1.
percentile(values, q4) ==
    IF Len(values) = 0 THEN [raised |-> TRUE, val4 |-> 0]
    ELSE IF Len(values) = 1 THEN [raised |-> FALSE, val4 |-> 4 * values[1]]
    ELSE LET idx4 == (Len(values) - 1) * q4
             lo == idx4 \div 4
             hi == Min(lo + 1, Len(values) - 1)
             frac4 == idx4 - 4 * lo
         IN [raised |-> FALSE,
             val4 |-> 4 * values[lo + 1] + (values[hi + 1] - values[lo + 1]) * frac4]

\* a Decision; the reason is its text's kind and the numbers formatted into it
\* (four times each: x/4 prints as a distinct :.2f text for every integer x)
Result(mode, target_w, kind, args) ==
    [mode |-> mode, target_w |-> target_w, reason |-> [kind |-> kind, args |-> args]]

InitialResultAbsent == Result("NONE", 0, "initial state", <<>>)

InitialResult == Result("HOLD", 0, "initial state", <<>>)

\* the branches of _tick on a price and a non-empty forecast, < for <=
RuleStrict(c, today) ==
    LET p25 == percentile(today, Q25).val4
        p75 == percentile(today, Q75).val4
        spread == p75 - p25
    IN IF 4 * c < p25 /\ spread >= 4 * SpreadThreshold
       THEN Result("CHARGE", TargetPower, "price<=P25", <<4 * c, p25, spread>>)
       ELSE IF 4 * c > p75 /\ spread >= 4 * SpreadThreshold
       THEN Result("DISCHARGE", TargetPower, "price>=P75", <<4 * c, p75, spread>>)
       ELSE Result("HOLD", 0, "price,P25,P75", <<4 * c, p25, p75, spread>>)

\* the branches of _tick on a price and a non-empty forecast (decision.py 64-85)
Rule(c, today) ==
    LET p25 == percentile(today, Q25).val4
        p75 == percentile(today, Q75).val4
        spread == p75 - p25
    IN IF 4 * c <= p25 /\ spread >= 4 * SpreadThreshold
       THEN Result("CHARGE", TargetPower, "price<=P25", <<4 * c, p25, spread>>)
       ELSE IF 4 * c >= p75 /\ spread >= 4 * SpreadThreshold
       THEN Result("DISCHARGE", TargetPower, "price>=P75", <<4 * c, p75, spread>>)
       ELSE Result("HOLD", 0, "price,P25,P75", <<4 * c, p25, p75, spread>>)

\* the forecast is looked at first
DecideForecastFirst(price, today) ==
    IF today = <<>>
    THEN [raised |-> FALSE, pct |-> 0,
          result |-> Result("HOLD", 0, "missing today forecast", <<>>)]
    ELSE IF price = None
    THEN [raised |-> FALSE, pct |-> 0,
          result |-> Result("HOLD", 0, "missing current price", <<>>)]
    ELSE [raised |-> percentile(today, Q25).raised \/ percentile(today, Q75).raised,
          pct |-> 2, result |-> Rule(price[1], today)]

\* _tick after its two queries returned: the Decision it builds, the number of
\* _percentile calls it makes, and whether one of them raised
Decide(price, today) ==
    IF price = None
    THEN [raised |-> FALSE, pct |-> 0,
          result |-> Result("HOLD", 0, "missing current price", <<>>)]
    ELSE IF today = <<>>
    THEN [raised |-> FALSE, pct |-> 0,
          result |-> Result("HOLD", 0, "missing today forecast", <<>>)]
    ELSE [raised |-> percentile(today, Q25).raised \/ percentile(today, Q75).raised,
          pct |-> 2, result |-> Rule(price[1], today)]

ResultOnErrorHold == Result("HOLD", 0, "error", <<>>)

PublishModeFirst(result) == [current_result EXCEPT !.mode = result.mode]

\* self._current_result = result: the tick builds the whole dict in a local
\* variable, without an await, and rebinds the attribute to it in one assignment
Publish(result) == result

\* an exception leaves _tick before self._current_result = result
ResultOnError == current_result

\* one pass of DecisionLoop.run_forever: _tick, the except clause, then the sleep
DecisionTick ==
    /\ dec_pc = "tick"
    /\ \E q_price \in {"ok", "raised"}, q_today \in {"ok", "raised"} :
          LET d == Decide(store_price, store_today)
          IN IF q_price = "raised" \/ q_today = "raised"
             THEN /\ current_result' = ResultOnError
                  /\ dec_outcome' = "query_raised"
                  /\ pct_calls' = 0
             ELSE IF d.raised
             THEN /\ current_result' = ResultOnError
                  /\ dec_outcome' = "tick_raised"
                  /\ pct_calls' = d.pct
             ELSE /\ current_result' = Publish(d.result)
                  /\ dec_outcome' = "published"
                  /\ pct_calls' = d.pct
    /\ dec_pc' = "sleep"
    /\ dec_sleep' = DecisionInterval
    /\ UNCHANGED <<store_price, store_today, collectorVars, tibberVars, solcastVars,
                   percentileVars, loopVars>>

DecisionWake ==
    /\ dec_pc = "sleep"
    /\ dec_pc' = "tick"
    /\ UNCHANGED <<current_result, dec_sleep, dec_outcome, pct_calls, store_price,
                   store_today, collectorVars, tibberVars, solcastVars, percentileVars,
                   loopVars>>

\* the store's latest price has changed while the loop slept (a new
\* electricity_price point was written, or the last one left the 6 h lookback)
StorePriceUpdate ==
    /\ dec_pc = "tick"
    /\ \E p \in OptionalPrices : p # store_price /\ store_price' = p
    /\ UNCHANGED <<current_result, dec_pc, dec_sleep, dec_outcome, pct_calls,
                   store_today, collectorVars, tibberVars, solcastVars, percentileVars,
                   loopVars>>

\* __init__; run_forever starts with a tick
InitDecisionLoop ==
    /\ current_result = InitialResult
    /\ dec_pc = "tick"
    /\ dec_sleep = 0
    /\ dec_outcome = "none"
    /\ pct_calls = 0

-----------------------------------------------------------------------------
(* ActuationLoop *)

Modes == {"CHARGE", "DISCHARGE", "HOLD"}

\* DecisionLoop.current_decision
current_decision == current_result.mode

SameCommandNever(decision) == FALSE

SameCommandAlways(decision) == TRUE

\* if decision == self._last_sent_command: return
SameCommand(decision) == Some(decision) = last_sent_command

\* one pass of ActuationLoop.run_forever: _tick, then the sleep.  A dispatch is
\* the "actuation_loop.new_command" record; with dry_run the tick adds the
\* "dry_run_skip" record, without it the tick adds nothing, and in neither
\* case does it call the hardware sink
ActuationTick ==
    /\ act_pc = "tick"
    /\ LET decision == current_decision
           run == IF act_seen = Some(decision) THEN run_dispatches ELSE 0
       IN /\ act_seen' = Some(decision)
          /\ IF SameCommand(decision)
             THEN /\ act_dispatch' = None
                  /\ run_dispatches' = run
                  /\ UNCHANGED <<last_sent_command, dispatched>>
             ELSE /\ act_dispatch' = Some(decision)
                  /\ dispatched' = Some(decision)
                  /\ run_dispatches' = Min(run + 1, 2)
                  /\ last_sent_command' = Some(decision)
    /\ act_pc' = "sleep"
    /\ UNCHANGED <<dry_run, hw_mode, confirmVars, collectorVars, tibberVars, solcastVars,
                   decisionVars, percentileVars>>

ActuationWake ==
    /\ act_pc = "sleep"
    /\ act_pc' = "tick"
    /\ UNCHANGED <<last_sent_command, dry_run, act_seen, act_dispatch, dispatched,
                   run_dispatches, hw_mode, confirmVars, collectorVars, tibberVars,
                   solcastVars, decisionVars, percentileVars>>

\* __init__; run_forever starts with a tick
InitActuationLoop ==
    /\ last_sent_command = None
    /\ act_pc = "tick"
    /\ act_seen = None
    /\ act_dispatch = None
    /\ dispatched = None
    /\ run_dispatches = 0
    /\ hw_mode = None

-----------------------------------------------------------------------------
(* ConfirmLoop *)

AfterConfirmCleared == None

\* _tick only reads self.actuation_loop._last_sent_command
AfterConfirm == last_sent_command

\* one pass of ConfirmLoop.run_forever: _tick logs the expected command, then the sleep
ConfirmTick ==
    /\ conf_pc = "tick"
    /\ conf_expected' = Some(last_sent_command)
    /\ last_sent_command' = AfterConfirm
    /\ conf_pc' = "sleep"
    /\ UNCHANGED <<dry_run, act_pc, act_seen, act_dispatch, dispatched, run_dispatches,
                   hw_mode, collectorVars, tibberVars, solcastVars, decisionVars,
                   percentileVars>>

ConfirmWake ==
    /\ conf_pc = "sleep"
    /\ conf_pc' = "tick"
    /\ UNCHANGED <<conf_expected, actuationVars, collectorVars, tibberVars, solcastVars,
                   decisionVars, percentileVars>>

\* __init__; run_forever starts with a tick
InitConfirmLoop ==
    /\ conf_pc = "tick"
    /\ conf_expected = None

-----------------------------------------------------------------------------
(* Cancellation of the Solcast task inside a tick *)

\* The task is cancelled while _collect awaits the fetch of site number at, or
\* the store write when at = Len(Sites) + 1.  CancelledError is not an
\* Exception: neither the site loop's nor run_forever's except clause catches
\* it, so the loop ends with what the tick had assigned by then.
SolcastCancelledTick ==
    /\ pc["solcast"] = "collect"
    /\ ShouldFetch
    /\ \E o \in [1 .. Len(Sites) -> SiteOutcomes], at \in 1 .. (Len(Sites) + 1) :
          LET before == {i \in 1 .. Len(Sites) : i < at}
          IN /\ (at = Len(Sites) + 1) => (WithPoints(o) # {})
             /\ daily_calls_date' = DateAfterCheck
             /\ daily_calls' = CallsAfterCheck + Cardinality(Answered(o) \cap before)
             /\ Granted
             /\ sc_sites' = Some([errs |-> Cardinality({i \in before : o[i] = "error"}),
                                  points |-> Cardinality(WithPoints(o) \cap before)])
             /\ sc_write' = IF at = Len(Sites) + 1 THEN "cancelled" ELSE "none"
             /\ sc_batch' = 0
    /\ pc' = [pc EXCEPT !["solcast"] = "cancelled"]
    /\ last_outcome' = [last_outcome EXCEPT !["solcast"] = "cancelled"]
    /\ UNCHANGED <<consecutive_errors, sleep_sec, fail_streak, last_fetch_hour, now_day,
                   now_slot, tibberVars, decisionVars, percentileVars, loopVars>>

-----------------------------------------------------------------------------
(* _percentile called on its own *)

Quarters == 0 .. 4

PercentileCall ==
    /\ pct_result = None
    /\ pct_result' = Some(percentile(pct_values, pct_q4))
    /\ UNCHANGED <<pct_values, pct_q4, collectorVars, tibberVars, solcastVars, decisionVars,
                   loopVars>>

-----------------------------------------------------------------------------
(* Specifications *)

IdleClock == now_slot = 0
IdleStore == store_price = None /\ store_today = <<>>
IdlePercentile == pct_values = <<>> /\ pct_q4 = 0 /\ pct_result = None
\* config.py: dry_run defaults to True
IdleLoops == InitActuationLoop /\ InitConfirmLoop /\ dry_run = TRUE

\* the whole process, started at any time of day on any store content
Init ==
    /\ InitCollectors
    /\ now_slot \in 0 .. (SlotsPerDay - 1)
    /\ InitDecisionLoop
    /\ store_price \in OptionalPrices
    /\ store_today \in SortedLists
    /\ IdlePercentile
    /\ InitActuationLoop /\ InitConfirmLoop
    /\ dry_run \in BOOLEAN

Next ==
    \/ \E c \in Collectors : CollectorTick(c) \/ CollectorWake(c)
    \/ DecisionTick
    \/ DecisionWake
    \/ StorePriceUpdate
    \/ ActuationTick
    \/ ActuationWake
    \/ ConfirmTick
    \/ ConfirmWake

Spec == Init /\ [][Next]_vars

\* the Sonnen and Tibber collectors side by side
SchedCollectors == {"sonnen", "tibber"}
InitSched ==
    /\ InitCollectors /\ IdleClock /\ InitDecisionLoop /\ IdleStore /\ IdlePercentile
    /\ IdleLoops
NextSched == \E c \in SchedCollectors : CollectorTick(c) \/ CollectorWake(c)
SpecSched == InitSched /\ [][NextSched]_vars

\* the Solcast collector against the clock
InitSolcast ==
    /\ InitCollectors
    /\ now_slot \in 0 .. (SlotsPerDay - 1)
    /\ InitDecisionLoop /\ IdleStore /\ IdlePercentile /\ IdleLoops
NextSolcast == CollectorTick("solcast") \/ CollectorWake("solcast")
SpecSolcast == InitSolcast /\ [][NextSolcast]_vars

\* the decision loop on every store content
InitDecision ==
    /\ InitCollectors /\ IdleClock
    /\ InitDecisionLoop
    /\ store_price \in OptionalPrices
    /\ store_today \in SortedLists
    /\ IdlePercentile /\ IdleLoops
NextDecision == DecisionTick \/ DecisionWake \/ StorePriceUpdate
SpecDecision == InitDecision /\ [][NextDecision]_vars

\* _percentile on every ascending list and every quarter q
InitPercentile ==
    /\ InitCollectors /\ IdleClock /\ InitDecisionLoop /\ IdleStore
    /\ pct_values \in SortedLists
    /\ pct_q4 \in Quarters
    /\ pct_result = None
    /\ IdleLoops
NextPercentile == PercentileCall
SpecPercentile == InitPercentile /\ [][NextPercentile]_vars

\* the decision loop, the dispatcher and the monitor side by side, with either
\* setting of dry_run, on store contents that lead to every mode
LoopPrices == {None, Some(10), Some(20), Some(45)}
LoopForecasts ==
    {l \in SortedLists : Len(l) \in {0, MaxLen} /\ \A i \in 1 .. Len(l) : l[i] \in {15, 40}}
InitLoops ==
    /\ InitCollectors /\ IdleClock
    /\ InitDecisionLoop
    /\ store_price \in LoopPrices
    /\ store_today \in LoopForecasts
    /\ IdlePercentile
    /\ InitActuationLoop /\ InitConfirmLoop
    /\ dry_run \in BOOLEAN
LoopPriceUpdate == StorePriceUpdate /\ store_price' \in LoopPrices
NextLoops ==
    \/ DecisionTick
    \/ DecisionWake
    \/ LoopPriceUpdate
    \/ ActuationTick
    \/ ActuationWake
    \/ ConfirmTick
    \/ ConfirmWake
SpecLoops == InitLoops /\ [][NextLoops]_vars

\* the Solcast collector, cancellable inside a tick, beside the dispatcher
InitCancel ==
    /\ InitCollectors
    /\ now_slot \in 0 .. ((CancelHours * SlotsPerHour) - 1)
    /\ InitDecisionLoop /\ IdleStore /\ IdlePercentile /\ IdleLoops
CancelWake ==
    /\ CollectorWake("solcast")
    /\ (now_day' * SlotsPerDay) + now_slot' < CancelHours * SlotsPerHour
NextCancel ==
    \/ CollectorTick("solcast")
    \/ CancelWake
    \/ SolcastCancelledTick
    \/ ActuationTick
    \/ ActuationWake
SpecCancel == InitCancel /\ [][NextCancel]_vars

\* the same, with the event loop running the dispatcher: a _tick that is due is
\* run and a sleep(10) that is pending ends
SpecLoopsFair == SpecLoops /\ WF_vars(ActuationTick) /\ WF_vars(ActuationWake)

-----------------------------------------------------------------------------
(* The claims *)

\* C1 (SpecSched): the sleep after the k-th consecutive failed _collect since
\* the last success is min(interval_sec * 2^(k-1), 300) seconds; the counter is
\* the number of those failures, it is 0 after a success (so the first failure
\* after a success sleeps min(interval_sec, 300)) and it is never negative.
C1_BackoffSchedule ==
    \A c \in Collectors :
        /\ consecutive_errors[c] >= 0
        /\ consecutive_errors[c] = fail_streak[c]
        /\ last_outcome[c] = "returned" => consecutive_errors[c] = 0
        /\ last_outcome[c] = "raised" =>
              /\ fail_streak[c] >= 1
              /\ sleep_sec[c] = Min(interval_sec(c) * (2 ^ (fail_streak[c] - 1)), 300)
              /\ fail_streak[c] = 1 => sleep_sec[c] = Min(interval_sec(c), 300)

\* the Sonnen collector has failed four times in a row (sleeping 240 s) while
\* the Tibber collector, after a failure of its own, succeeded again
C1_Witness ==
    /\ last_outcome["sonnen"] = "raised"
    /\ fail_streak["sonnen"] = 4
    /\ sleep_sec["sonnen"] = 240
    /\ last_outcome["tibber"] = "returned"

\* C2 (SpecSched): run_forever never leaves its loop and always has a next
\* step; a pass of one collector's loop, failed or not, changes neither the
\* failure counter nor the pending delay nor the position of another collector.
C2_NeverStopsAndIsolated ==
    /\ [](\A c \in SchedCollectors :
             /\ pc[c] \in {"collect", "sleep"}
             /\ ENABLED (CollectorTick(c) \/ CollectorWake(c)))
    /\ [][\A c \in Collectors :
             (pc[c] = "collect" /\ pc'[c] = "sleep") =>
                 \A d \in Collectors \ {c} :
                     /\ consecutive_errors'[d] = consecutive_errors[d]
                     /\ sleep_sec'[d] = sleep_sec[d]
                     /\ fail_streak'[d] = fail_streak[d]
                     /\ pc'[d] = pc[d]]_vars

\* the Sonnen collector keeps failing while the Tibber collector sleeps its
\* nominal interval after a success
C2_Witness ==
    /\ consecutive_errors["sonnen"] = 3
    /\ pc["sonnen"] = "collect"
    /\ consecutive_errors["tibber"] = 0
    /\ last_outcome["tibber"] = "returned"
    /\ pc["tibber"] = "sleep"
    /\ sleep_sec["tibber"] = TibberInterval

\* C3 (SpecSolcast): the daily call counter is at most the daily cap of 10 in
\* every reachable state.
C3_DailyCallsWithinCap == daily_calls <= DailyCap

\* C4 (SpecSolcast): within one allowed hour-window _should_fetch returns True
\* on at most one tick.
C4_OneGrantPerHourWindow == ~regranted

\* C5 (SpecSolcast): fetch permission is granted on at most 10 ticks of one
\* UTC calendar day.
C5_GrantsPerDayWithinCap == grants_today <= DailyCap

\* C6 (SpecDecision): a tick that read a price c and a non-empty forecast
\* publishes CHARGE/3000 iff c <= P25 and spread >= 8, otherwise
\* DISCHARGE/3000 iff c >= P75 and spread >= 8, otherwise HOLD/0.
C6_DecisionRule ==
    (dec_pc = "sleep" /\ dec_outcome = "published"
        /\ store_price # None /\ store_today # <<>>) =>
        LET c4 == 4 * store_price[1]
            p25 == percentile(store_today, 1).val4
            p75 == percentile(store_today, 3).val4
            wide == (p75 - p25 >= 32)
            charge == (c4 <= p25 /\ wide)
            discharge == (~charge /\ c4 >= p75 /\ wide)
        IN /\ (current_result.mode = "CHARGE") <=> charge
           /\ (current_result.mode = "DISCHARGE") <=> discharge
           /\ (current_result.mode = "HOLD") <=> (~charge /\ ~discharge)
           /\ current_result.target_w = IF charge \/ discharge THEN 3000 ELSE 0

\* P25 = 20, P75 = 40 and the price on the lower bound: CHARGE
C6_Witness ==
    /\ dec_pc = "sleep" /\ dec_outcome = "published"
    /\ store_today = <<20, 20, 40, 40>>
    /\ store_price = Some(20)
    /\ current_result.mode = "CHARGE"
    /\ current_result.target_w = 3000

\* C7 as stated (SpecDecision): price 18 on the forecast [15, 18, 25, 45]
\* gives P25 = 16.5, P75 = 31.5, spread = 15 and CHARGE at 3000 W.
C7_EndToEndAsStated ==
    (dec_pc = "sleep" /\ dec_outcome = "published"
        /\ store_price = Some(18) /\ store_today = <<15, 18, 25, 45>>) =>
        /\ percentile(store_today, Q25).val4 = 66
        /\ percentile(store_today, Q75).val4 = 126
        /\ current_result.mode = "CHARGE"
        /\ current_result.target_w = 3000

\* C7 amended (SpecDecision): price 18 on the forecast [15, 18, 25, 45] gives
\* P25 = 17.25, P75 = 30.0, spread = 12.75 and, 18 lying strictly between the
\* two percentiles, HOLD at 0 W.
C7_EndToEndHold ==
    (dec_pc = "sleep" /\ dec_outcome = "published"
        /\ store_price = Some(18) /\ store_today = <<15, 18, 25, 45>>) =>
        /\ current_result.mode = "HOLD"
        /\ current_result.target_w = 0
        /\ current_result.reason = [kind |-> "price,P25,P75", args |-> <<72, 69, 120, 51>>]

C7_Witness ==
    /\ dec_pc = "sleep" /\ dec_outcome = "published"
    /\ store_price = Some(18) /\ store_today = <<15, 18, 25, 45>>
    /\ current_result.mode = "HOLD"

\* C8 (SpecPercentile): _percentile on an ascending list of n values returns
\* the value itself when n = 1, otherwise values[lo] + (values[hi] -
\* values[lo]) * frac with idx = (n-1)*q, lo = floor(idx), hi = min(lo+1, n-1),
\* frac = idx - lo; percentile([10], .25) = 10, percentile([10,20,30,40], .25)
\* = 17.5, percentile([10,20,30,40], .75) = 32.5; an empty list raises.
C8_Percentile ==
    pct_result # None =>
        LET r == pct_result[1]
            n == Len(pct_values)
            idx4 == (n - 1) * pct_q4
            lo == CHOOSE k \in 0 .. n : 4 * k <= idx4 /\ idx4 < 4 * k + 4
            hi == IF lo + 1 <= n - 1 THEN lo + 1 ELSE n - 1
        IN /\ r.raised <=> (n = 0)
           /\ n = 1 => r.val4 = 4 * pct_values[1]
           /\ n >= 2 =>
                 r.val4 = 4 * pct_values[lo + 1]
                          + (pct_values[hi + 1] - pct_values[lo + 1]) * (idx4 - 4 * lo)
           /\ (pct_values = <<10>> /\ pct_q4 = 1) => r.val4 = 40
           /\ (pct_values = <<10, 20, 30, 40>> /\ pct_q4 = 1) => r.val4 = 70
           /\ (pct_values = <<10, 20, 30, 40>> /\ pct_q4 = 3) => r.val4 = 130

C8_Witness ==
    /\ pct_values = <<10, 20, 30, 40>>
    /\ pct_q4 = 3
    /\ pct_result = Some([raised |-> FALSE, val4 |-> 130])

\* C9 (SpecDecision): a tick whose queries returned no current price publishes
\* HOLD/0 "missing current price" (also when the forecast is empty too); with a
\* price and an empty forecast it publishes HOLD/0 "missing today forecast";
\* neither raises nor calls _percentile.
C9_MissingInputsHold ==
    (dec_pc = "sleep" /\ dec_outcome \in {"published", "tick_raised"}) =>
        /\ store_price = None =>
              /\ dec_outcome = "published"
              /\ pct_calls = 0
              /\ current_result = Result("HOLD", 0, "missing current price", <<>>)
        /\ (store_price # None /\ store_today = <<>>) =>
              /\ dec_outcome = "published"
              /\ pct_calls = 0
              /\ current_result = Result("HOLD", 0, "missing today forecast", <<>>)

\* both are missing and the tick names the price
C9_Witness ==
    /\ dec_pc = "sleep" /\ dec_outcome = "published"
    /\ store_price = None /\ store_today = <<>>
    /\ pct_calls = 0
    /\ current_result.reason.kind = "missing current price"

\* C10 (SpecDecision): a tick in which a store query raised leaves the current
\* Decision as it was, the loop stays in run_forever and sleeps the normal
\* interval before its next tick.
C10_QueryErrorSkipsTick ==
    /\ [](/\ dec_pc \in {"tick", "sleep"}
          /\ dec_pc = "sleep" => (dec_sleep = DecisionInterval /\ ENABLED DecisionWake))
    /\ [][(dec_pc = "tick" /\ dec_pc' = "sleep" /\ dec_outcome' = "query_raised") =>
             current_result' = current_result]_vars

\* a CHARGE decision survived a tick whose query raised
C10_Witness ==
    /\ dec_pc = "sleep" /\ dec_outcome = "query_raised"
    /\ current_result.mode = "CHARGE"

\* C11: under SpecLoops, a dispatcher tick makes a dispatch exactly when the
\* mode it reads differs from the last dispatched mode, the dispatch carries
\* the mode read, which differs from the mode of the dispatch before it, and
\* the tick leaves that mode as the last dispatched one; a tick that reads the
\* mode the tick before it read makes no dispatch, so that a run of ticks
\* reading one mode holds exactly one dispatch, made by its first tick.
C11_DispatchOnlyOnChange ==
    /\ [][(act_pc = "tick" /\ act_pc' = "sleep") =>
            /\ (act_dispatch' # None) <=> (Some(current_decision) # last_sent_command)
            /\ (act_dispatch' # None) =>
                   (act_dispatch' = Some(current_decision) /\ act_dispatch' # dispatched)
            /\ last_sent_command' = Some(current_decision)
            /\ (act_seen = Some(current_decision)) => (act_dispatch' = None)]_vars
    /\ [](act_seen # None => run_dispatches = 1)

\* the dispatcher has read DISCHARGE after a CHARGE dispatch and dispatched it,
\* then read DISCHARGE again and returned early
C11_Witness ==
    /\ act_pc = "tick"
    /\ act_seen = Some("DISCHARGE")
    /\ act_dispatch = None
    /\ dispatched = Some("DISCHARGE")
    /\ run_dispatches = 1
    /\ conf_expected = Some(Some("CHARGE"))

\* C12 as stated: a Tibber tick that returns has the current-price point in its
\* write, and when the tick before it returned too and got the same non-empty
\* forecast, the forecast points were in that tick's write and are not in this one's.
C12_DedupAsStated ==
    [][(pc["tibber"] = "collect" /\ pc'["tibber"] = "sleep"
            /\ last_outcome'["tibber"] = "returned") =>
          /\ "current" \in tib_written'
          /\ (/\ last_outcome["tibber"] = "returned"
              /\ tib_resp # None
              /\ tib_resp[1].forecast # 0
              /\ tib_resp'[1].forecast = tib_resp[1].forecast)
             => ("forecast" \in tib_written /\ "forecast" \notin tib_written')]_vars

\* C12, amended: a Tibber tick that returns has the forecast points in its write
\* exactly when the forecast is not empty and its fingerprint differed from the
\* stored one, never when the tick before it returned with the same forecast,
\* and has the current-price point in its write exactly when the response
\* carried a current price.
C12_Dedup ==
    [][(pc["tibber"] = "collect" /\ pc'["tibber"] = "sleep"
            /\ last_outcome'["tibber"] = "returned") =>
          /\ tib_resp' # None
          /\ ("forecast" \in tib_written') <=>
                (/\ tib_resp'[1].forecast # 0
                 /\ Some(ForecastHash(tib_resp'[1].forecast)) # last_forecast_hash)
          /\ (/\ last_outcome["tibber"] = "returned"
              /\ tib_resp # None
              /\ tib_resp'[1].forecast = tib_resp[1].forecast)
             => "forecast" \notin tib_written'
          /\ ("current" \in tib_written') <=> tib_resp'[1].current]_vars

\* two ticks in a row returned with the same forecast and the second wrote the
\* current price only
C12_Witness ==
    /\ pc["tibber"] = "sleep"
    /\ last_outcome["tibber"] = "returned"
    /\ tib_resp = Some([current |-> TRUE, forecast |-> 2, repeat |-> TRUE])
    /\ tib_written = {"current"}

\* C13: a Solcast tick that is permitted to fetch and on which the fetch of
\* every site raises adds one to the failure counter and sleeps the backoff delay.
C13_TotalFailureBacksOff ==
    [][(pc["solcast"] = "collect" /\ pc'["solcast"] = "sleep"
            /\ sc_sites' # None /\ sc_sites'[1].errs = Len(Sites)) =>
          /\ consecutive_errors'["solcast"] = consecutive_errors["solcast"] + 1
          /\ sleep_sec'["solcast"] = Backoff("solcast", consecutive_errors'["solcast"])]_vars

\* C14 as stated: on a permitted Solcast tick on which the fetch of some but
\* not all sites raises, the other sites are fetched, the points they returned
\* are written, and the failure counter is not incremented; and the hour-window
\* is marked consumed only on ticks where the fetch of at least one site returned.
C14_PartialFailureAsStated ==
    [][(pc["solcast"] = "collect" /\ pc'["solcast"] = "sleep") =>
          /\ (/\ sc_sites' # None
              /\ sc_sites'[1].errs > 0
              /\ sc_sites'[1].errs < Len(Sites))
             => /\ daily_calls' = CallsAfterCheck + (Len(Sites) - sc_sites'[1].errs)
                /\ sc_batch' = sc_sites'[1].points
                /\ consecutive_errors'["solcast"] <= consecutive_errors["solcast"]
          /\ (last_fetch_hour' # last_fetch_hour)
             => (sc_sites' # None /\ sc_sites'[1].errs < Len(Sites))]_vars

\* C14, amended: on such a tick the other sites are fetched and the points they
\* returned are handed to one store write; unless that write raises they are
\* written and the tick is a success (counter 0, nominal sleep), and the tick
\* fails exactly when the write raises; the hour-window is marked consumed
\* exactly on the ticks whose write of points returned.
C14_PartialFailureTolerated ==
    [][(pc["solcast"] = "collect" /\ pc'["solcast"] = "sleep") =>
          /\ (/\ sc_sites' # None
              /\ sc_sites'[1].errs > 0
              /\ sc_sites'[1].errs < Len(Sites))
             => /\ daily_calls' = CallsAfterCheck + (Len(Sites) - sc_sites'[1].errs)
                /\ (sc_write' = "none") <=> (sc_sites'[1].points = 0)
                /\ (sc_write' = "ok") => (sc_batch' = sc_sites'[1].points)
                /\ (sc_write' # "error") =>
                       /\ last_outcome'["solcast"] = "returned"
                       /\ consecutive_errors'["solcast"] = 0
                       /\ sleep_sec'["solcast"] = SolcastInterval
                /\ (sc_write' = "error") <=> (last_outcome'["solcast"] = "raised")
          /\ (last_fetch_hour' # last_fetch_hour)
             <=> (sc_sites' # None /\ sc_write' = "ok")
          /\ (last_fetch_hour' # last_fetch_hour)
             => (sc_sites'[1].errs < Len(Sites) /\ last_fetch_hour' = Some(Hour))]_vars

\* site se raised, site sw returned points, they were written and the loop
\* sleeps its nominal interval with the hour-window consumed
C14_Witness ==
    /\ pc["solcast"] = "sleep"
    /\ sc_sites = Some([errs |-> 1, points |-> 1])
    /\ sc_write = "ok"
    /\ sc_batch = 1
    /\ last_fetch_hour = Some(Hour)
    /\ consecutive_errors["solcast"] = 0

\* C15: under SpecDecision the decision loop starts with the Decision HOLD at
\* 0 W, its Decision is always a record whose mode is CHARGE, DISCHARGE or
\* HOLD, and the Decision changes only in a tick that published one, so that
\* it is the initial HOLD until the first successful tick.
C15_AlwaysOneDecision ==
    /\ (current_result.mode = "HOLD" /\ current_result.target_w = 0)
    /\ [](/\ DOMAIN current_result = DOMAIN InitialResult
          /\ current_result.mode \in Modes
          /\ (dec_outcome = "none" => current_result = InitialResult))
    /\ [][current_result' # current_result =>
            (dec_pc = "tick" /\ dec_outcome' = "published")]_vars

\* the first tick failed on its queries and the Decision is still the initial HOLD
C15_Witness ==
    /\ dec_pc = "sleep"
    /\ dec_outcome = "query_raised"
    /\ current_result = InitialResult

\* C16: under SpecLoops, in every state a reader can run in, the current
\* Decision is the initial one or the whole Decision that one tick computes
\* from the store, its (mode, target_w) pair is (HOLD, 0), (CHARGE, 3000) or
\* (DISCHARGE, 3000), and the mode the dispatcher last read is one of the modes.
C16_WholeDecisionObserved ==
    /\ \/ current_result = InitialResult
       \/ \E p \in LoopPrices :
             /\ ~Decide(p, store_today).raised
             /\ current_result = Decide(p, store_today).result
    /\ <<current_result.mode, current_result.target_w>> \in
          {<<"HOLD", 0>>, <<"CHARGE", TargetPower>>, <<"DISCHARGE", TargetPower>>}
    /\ act_seen # None => act_seen[1] \in Modes

\* the dispatcher read CHARGE, the monitor reported it, and a later decision
\* tick has replaced the Decision by DISCHARGE at 3000 W
C16_Witness ==
    /\ act_seen = Some("CHARGE")
    /\ conf_expected = Some(Some("CHARGE"))
    /\ dec_outcome = "published"
    /\ current_result.mode = "DISCHARGE"
    /\ current_result.target_w = TargetPower

\* C17: a ConfirmLoop tick reports the dispatcher's last sent command and
\* leaves it, the dispatcher's other state and its dispatch record, the
\* hardware sink, the decision loop and the store it reads, and every
\* collector's state and write record unchanged.
C17_ConfirmReadOnly ==
    [][(conf_pc = "tick" /\ conf_pc' = "sleep") =>
          /\ conf_expected' = Some(last_sent_command)
          /\ UNCHANGED <<actuationVars, decisionVars, collectorVars, tibberVars,
                         solcastVars>>]_vars

\* the monitor has reported the CHARGE command the dispatcher sent
C17_Witness ==
    /\ conf_pc = "sleep"
    /\ conf_expected = Some(Some("CHARGE"))
    /\ last_sent_command = Some("CHARGE")
    /\ dispatched = Some("CHARGE")
    /\ current_result.mode = "CHARGE"

\* C18: under SpecLoops, once the dispatcher has dispatched a mode, that mode
\* is its last-dispatched state and, with dry_run off, it is the command the
\* hardware sink was last given, while with dry_run on the sink was given nothing.
C18_RealActuationUnlessDryRun ==
    dispatched # None =>
        /\ last_sent_command = dispatched
        /\ hw_mode = IF dry_run THEN None ELSE dispatched

\* C19 as stated: a Solcast tick whose UTC date differs from the stored day key
\* sets the key to the date and restarts the counter from 0 (it then counts the
\* sites fetched on this tick), whatever the hour and the last-fetch hour are.
C19_ResetOnNewDayAsStated ==
    [][(pc["solcast"] = "collect" /\ pc'["solcast"] = "sleep"
            /\ Today # daily_calls_date) =>
          /\ daily_calls_date' = Today
          /\ daily_calls' = IF sc_sites' = None THEN 0
                            ELSE Len(Sites) - sc_sites'[1].errs]_vars

\* C19, amended: on such a tick the key is set and the counter restarted from 0
\* when the hour is in the allow-list and differs from the last-fetch hour, and
\* the tick is then permitted to fetch; on every other such tick the counter
\* and the key are left as they were and nothing is fetched.
C19_ResetOnNewDay ==
    [][(pc["solcast"] = "collect" /\ pc'["solcast"] = "sleep"
            /\ Today # daily_calls_date) =>
          IF Hour \in FETCH_HOURS_UTC /\ last_fetch_hour # Some(Hour)
          THEN /\ daily_calls_date' = Today
               /\ sc_sites' # None
               /\ daily_calls' = Len(Sites) - sc_sites'[1].errs
          ELSE /\ UNCHANGED <<daily_calls, daily_calls_date>>
               /\ sc_sites' = None]_vars

\* on the second day the key was moved to that day and the counter restarted:
\* it counts the one site fetched on that tick
C19_Witness ==
    /\ pc["solcast"] = "sleep"
    /\ now_day = 1
    /\ daily_calls_date = Some(1)
    /\ grants_today = 1
    /\ sc_sites = Some([errs |-> 1, points |-> 0])
    /\ daily_calls = 1

\* C20: a Solcast tick at an hour outside FETCH_HOURS_UTC fetches no site and
\* writes nothing, is a success for run_forever (counter 0, nominal sleep) and
\* leaves the daily counter, the day key and the last-fetch hour unchanged.
C20_OutsideAllowedHours ==
    [][(pc["solcast"] = "collect" /\ pc'["solcast"] = "sleep"
            /\ Hour \notin FETCH_HOURS_UTC) =>
          /\ sc_sites' = None
          /\ sc_write' = "none"
          /\ sc_batch' = 0
          /\ last_outcome'["solcast"] = "returned"
          /\ consecutive_errors'["solcast"] = 0
          /\ sleep_sec'["solcast"] = SolcastInterval
          /\ UNCHANGED <<daily_calls, daily_calls_date, last_fetch_hour, grants_today,
                         grant_key>>]_vars

\* a tick at 06:xx UTC after the 05:00 window was consumed by two fetched sites
C20_Witness ==
    /\ pc["solcast"] = "sleep"
    /\ Hour = 6
    /\ last_outcome["solcast"] = "returned"
    /\ sc_sites = None
    /\ daily_calls = 2
    /\ last_fetch_hour = Some(5)
    /\ sleep_sec["solcast"] = SolcastInterval

\* C22: whenever _last_forecast_hash holds the fingerprint of a forecast that
\* has points, those points were carried by a store write that returned.
C22_FingerprintMeansWritten ==
    (hash_src # None /\ hash_src[1] # 0) => hash_src[1] \in tib_stored

\* C23: on a day after the first, the first Solcast tick that falls in an
\* allowed hour (the tick in the earliest allowed hour whose preceding sleep
\* began before that hour) is permitted to fetch.
C23_NewDayFirstTickGranted ==
    [][(/\ pc["solcast"] = "collect" /\ pc'["solcast"] = "sleep"
        /\ now_day > 0
        /\ Hour \in FETCH_HOURS_UTC
        /\ \A h \in FETCH_HOURS_UTC : Hour <= h
        /\ now_slot - (sleep_sec["solcast"] \div SlotSec) < Hour * SlotsPerHour)
       => sc_sites' # None]_vars

\* C25: while a collector sleeps after a failed tick, the delay is at least
\* the collector's nominal interval.
C25_BackoffNotShorterThanInterval ==
    \A c \in Collectors :
        (pc[c] = "sleep" /\ last_outcome[c] = "raised") => sleep_sec[c] >= interval_sec(c)

\* C24: under SpecLoopsFair, if from some point on the current mode is m for
\* good, then from some point on the last dispatched mode is m for good; and
\* the last dispatched value starts unset and changes only to the mode the
\* decision loop holds at that step, so it is always unset or a mode the
\* decision loop held earlier.
C24_DispatcherFollows ==
    /\ last_sent_command = None
    /\ [][last_sent_command' # last_sent_command =>
            last_sent_command' = Some(current_decision)]_vars
    /\ \A m \in Modes :
          <>[](current_decision = m) => <>[](last_sent_command = Some(m))

\* the decision loop published CHARGE and the next dispatcher tick caught up with it
C24_Witness ==
    /\ act_pc = "sleep"
    /\ dec_outcome = "published"
    /\ current_decision = "CHARGE"
    /\ act_dispatch = Some("CHARGE")
    /\ last_sent_command = Some("CHARGE")

\* C21 as stated: the dispatcher's last sent command, and the Solcast
\* collector's daily counter, last-fetch hour and failure counter, change only
\* in a tick that completes successfully; a tick that raises or is cancelled
\* leaves them as they were.
C21_OnlySuccessChangesAsStated ==
    [][/\ (last_sent_command' # last_sent_command) =>
             (act_pc = "tick" /\ act_pc' = "sleep")
       /\ (\/ daily_calls' # daily_calls
           \/ last_fetch_hour' # last_fetch_hour
           \/ consecutive_errors'["solcast"] # consecutive_errors["solcast"]) =>
             (/\ pc["solcast"] = "collect"
              /\ pc'["solcast"] = "sleep"
              /\ last_outcome'["solcast"] = "returned")]_vars

\* C21, amended: the last sent command changes only in a dispatcher tick that
\* completes, and the last-fetch hour only in a Solcast tick that returns.  The
\* daily counter is restarted by the policy check and counts each site fetch as
\* it returns, so a tick that then raises at the store write, or is cancelled,
\* leaves it changed.  The failure counter is incremented by a tick that raises,
\* reset by a tick that returns and left alone by a cancelled tick, and changes
\* in no other step.
C21_StateChanges ==
    [][/\ (last_sent_command' # last_sent_command) =>
             (act_pc = "tick" /\ act_pc' = "sleep")
       /\ (last_fetch_hour' # last_fetch_hour) =>
             (/\ pc["solcast"] = "collect"
              /\ pc'["solcast"] = "sleep"
              /\ last_outcome'["solcast"] = "returned")
       /\ (\/ daily_calls' # daily_calls
           \/ consecutive_errors'["solcast"] # consecutive_errors["solcast"]) =>
             (pc["solcast"] = "collect" /\ pc'["solcast"] # "collect")
       /\ (pc["solcast"] = "collect" /\ pc'["solcast"] # "collect") =>
             CASE last_outcome'["solcast"] = "returned" ->
                     consecutive_errors'["solcast"] = 0
               [] last_outcome'["solcast"] = "raised" ->
                     /\ consecutive_errors'["solcast"] = consecutive_errors["solcast"] + 1
                     /\ daily_calls' = CallsAfterCheck + (Len(Sites) - sc_sites'[1].errs)
                     /\ daily_calls' > daily_calls
                     /\ last_fetch_hour' = last_fetch_hour
               [] last_outcome'["solcast"] = "cancelled" ->
                     /\ consecutive_errors'["solcast"] = consecutive_errors["solcast"]
                     /\ daily_calls' >= CallsAfterCheck + sc_sites'[1].points
                     /\ daily_calls' <= CallsAfterCheck + Len(Sites)
                     /\ last_fetch_hour' = last_fetch_hour]_vars

\* the dispatcher has sent HOLD, and the Solcast task was cancelled in the store
\* write after both sites had been fetched and counted
C21_Witness ==
    /\ last_sent_command = Some("HOLD")
    /\ pc["solcast"] = "cancelled"
    /\ sc_write = "cancelled"
    /\ daily_calls = Len(Sites)
    /\ last_fetch_hour = None

====
